---- MODULE Spec2Model ----
(***************************************************************************)
(* FRA-Connect backend (backend/server.py): the documents collection, the  *)
(* upload directory and the claims collection, with every request handler  *)
(* cut at its awaits.  A handler runs in a process p of Procs; pc[p] is    *)
(* the await it is suspended at, arg[p] its parameters, loc[p] its local   *)
(* variables and resp[p] what it returned.                                 *)
(***************************************************************************)
EXTENDS Integers, Sequences, FiniteSets, TLC

VARIABLES
    docs,      \* db.documents: id -> record
    files,     \* UPLOAD_DIR: the paths that hold a file
    claims,    \* db.claims, in insertion order
    villages,  \* db.villages, in insertion order
    nextId,    \* the next fresh uuid / generated filename
    nreq,      \* requests received so far
    last,      \* the process the latest request was handed to
    overlap,   \* whether clients send a request while another is being served
    issued,    \* history: id -> family and version given to every document ever inserted
    pc, arg, loc, resp

vars ==
    <<docs, files, claims, villages, nextId, nreq, last, overlap, issued, pc, arg, loc,
      resp>>

(* ------------------------------ bounds -------------------------------- *)
MaxDocs == 4
MaxReqs == 3
MaxSeqReqs == 4
MaxBulk == 2
MaxClaims == 4

Procs == {1, 2}
(* the worker that serves the requests when they do not overlap *)
Worker == CHOOSE p \in Procs : TRUE
DocIds == 1..MaxDocs

(* Optional[str] = None for an id *)
NoneId == 0

(* ------------------------------- enums -------------------------------- *)
DocumentType ==
    {"identity_proof", "address_proof", "land_document", "survey_settlement",
     "forest_clearance", "photograph", "other"}

DocumentStatus == {"uploaded", "processing", "ocr_completed", "verified", "rejected"}

(* a seventh type let through *)
allowed_types_with_text ==
    {"application/pdf", "image/jpeg", "image/jpg", "image/png", "image/tiff",
     "image/bmp", "text/plain"}

allowed_types ==
    {"application/pdf", "image/jpeg", "image/jpg", "image/png", "image/tiff",
     "image/bmp"}

(* request inputs *)
MimeInputs == {"application/pdf", "text/plain"}
TypeInputs == {"land_document"}
ClaimIdInputs == {"None", "claim-1"}
Unset == "unset"
Null == "null"
UpdateStatusInputs == {Unset, Null, "uploaded", "verified", "rejected"}
UpdateTypeInputs == {Unset, Null, "other"}
AreaInputs == {250, 399, 400, 401, 650}
YearInputs == {2024, 2025}
ConfidenceValues == {75, 98}

(* datetime.utcnow(): when requests are served one at a time the clock has
   ticked once per request received; overlapping requests all fall within
   one tick of the clock. *)
utcnow == IF overlap THEN 0 ELSE nreq

(* --------------------------- Document model --------------------------- *)
Document(path, mime, dtype, claim, ver, parent) ==
    [filename |-> path, file_path |-> path, mime_type |-> mime, document_type |-> dtype,
     status |-> "uploaded", claim_id |-> claim, version |-> ver,
     parent_document_id |-> parent, ocr_text |-> "None", ocr_confidence |-> 0,
     ocr_metadata |-> "{}", updated_at |-> utcnow]

NoDoc == [Document(NoneId, "", "", "None", 0, NoneId) EXCEPT !.updated_at = 0]

(* db.documents.find_one({"id": id}) *)
find_one(id) == IF id \in DOMAIN docs THEN docs[id] ELSE NoDoc

(* the "if not doc" guard left out *)
FoundAlways(d) == TRUE

Found(d) == d # NoDoc

(* db.documents.insert_one *)
insert_one(id, d) == docs @@ (id :> d)

(* {"$set": fields} applied to one record *)
Set(d, fields) == [k \in DOMAIN d |-> IF k \in DOMAIN fields THEN fields[k] ELSE d[k]]

(* an update with upsert=True: a record is made when none matches *)
update_one_upsert(id, fields) ==
    IF id \in DOMAIN docs THEN [docs EXCEPT ![id] = Set(@, fields)]
    ELSE docs @@ (id :> Set(NoDoc, fields))

(* db.documents.update_one({"id": id}, {"$set": fields}): no upsert *)
update_one(id, fields) ==
    IF id \in DOMAIN docs THEN [docs EXCEPT ![id] = Set(@, fields)] ELSE docs

(* a delete that takes the versions of the document along *)
delete_one_with_versions(id) ==
    [i \in {j \in DOMAIN docs : j # id /\ docs[j].parent_document_id # id} |-> docs[i]]

(* db.documents.delete_one({"id": id}) *)
delete_one(id) == [i \in DOMAIN docs \ {id} |-> docs[i]]

(* ----------------------------- processes ------------------------------ *)
NoArg == [op |-> "none", id |-> NoneId, mime |-> "", document_type |-> "",
          claim_id |-> "None", status |-> "", items |-> <<>>, area |-> 0]

NoLoc == [doc |-> NoDoc, new_version |-> 0, new_id |-> NoneId, idx |-> 0,
          uploaded |-> <<>>, total_ok |-> 0, total_failed |-> 0, count |-> 0]

NoResp == [op |-> "none", id |-> NoneId, mime |-> "", status |-> "none",
           list |-> <<>>, items |-> <<>>, total_ok |-> 0, total_failed |-> 0,
           os_error |-> FALSE, limit |-> 0]

(* the response of handler p; HTTPException(404) is "NotFound", 400 is *)
(* "ValidationError", 422 is "Unprocessable", an uncaught exception is *)
(* "ServerError"                                                       *)
Reply(a, st) ==
    [NoResp EXCEPT !.op = a.op, !.id = a.id, !.mime = a.mime, !.status = st]

Idle(p) == pc[p] = "idle"

Quiet == \A q \in Procs : Idle(q)

(* a request arrives at an idle worker *)
Begin(p) ==
    /\ Idle(p)
    /\ overlap \/ (Quiet /\ p = Worker)
    /\ nreq < (IF overlap THEN MaxReqs ELSE MaxSeqReqs)
    /\ nreq' = nreq + 1
    /\ last' = p

(* handler p suspends at its next await *)
Await(p, at, a, l) ==
    /\ pc' = [pc EXCEPT ![p] = at]
    /\ arg' = [arg EXCEPT ![p] = a]
    /\ loc' = [loc EXCEPT ![p] = l]
    /\ resp' = [resp EXCEPT ![p] = NoResp]

(* handler p returns or raises: its frame is gone, its response is out *)
Return(p, r) ==
    /\ pc' = [pc EXCEPT ![p] = "idle"]
    /\ arg' = [arg EXCEPT ![p] = NoArg]
    /\ loc' = [loc EXCEPT ![p] = NoLoc]
    /\ resp' = [resp EXCEPT ![p] = r]

InitCommon ==
    /\ docs = <<>>
    /\ files = {}
    /\ claims = <<>>
    /\ villages = <<>>
    /\ nextId = 1
    /\ nreq = 0
    /\ last = NoneId
    /\ issued = <<>>
    /\ pc = [p \in Procs |-> "idle"]
    /\ arg = [p \in Procs |-> NoArg]
    /\ loc = [p \in Procs |-> NoLoc]
    /\ resp = [p \in Procs |-> NoResp]

Init == overlap = TRUE /\ InitCommon

SeqInit == overlap = FALSE /\ InitCommon

(* The family a document is inserted into: its own id for a version-1     *)
(* document, the family of the document it is a version of otherwise.     *)
Record(id, fam, ver) == issued @@ (id :> [family |-> fam, version |-> ver])

(* ------------------------- mock_ocr_processing ------------------------ *)
IsPdf(mime) == mime = "application/pdf"

IsImage(mime) ==
    mime \in {"image/jpeg", "image/jpg", "image/png", "image/tiff", "image/bmp"}

(* a mock whose confidence is drawn from below the range *)
mock_ocr_processing_low(file_path, mime) ==
    { [text |-> IF IsPdf(mime) THEN "FOREST RIGHTS CERTIFICATE"
                               ELSE "Aadhaar Card / Identity Document",
       confidence |-> c - 30,
       metadata |-> IF IsImage(mime) THEN "{language: english, pages: 1}"
                                     ELSE "{language: english, pages: 1..5}"] :
      c \in ConfidenceValues }

(* the results the random mock can return: the text template of the MIME  *)
(* category, a confidence (in hundredths) drawn from [0.75, 0.98] and the  *)
(* metadata dict {processing_time, language, pages}                        *)
mock_ocr_processing(file_path, mime) ==
    { [text |-> IF IsPdf(mime) THEN "FOREST RIGHTS CERTIFICATE"
                               ELSE "Aadhaar Card / Identity Document",
       confidence |-> c,
       metadata |-> IF IsImage(mime) THEN "{language: english, pages: 1}"
                                     ELSE "{language: english, pages: 1..5}"] :
      c \in ConfidenceValues }

(* pydantic's Document(doc): a null status or document type is refused *)
Valid(d) == d.status \in DocumentStatus /\ d.document_type \in DocumentType

(* ------------------------- POST documents/upload ---------------------- *)
(* validation, generate_filename and the file write *)
upload_document(p) ==
    /\ Begin(p)
    /\ nextId <= MaxDocs
    /\ \E m \in MimeInputs, t \in TypeInputs, c \in ClaimIdInputs :
         LET a == [NoArg EXCEPT !.op = "upload", !.mime = m, !.document_type = t,
                                !.claim_id = c]
         IN  IF m \notin allowed_types
               THEN /\ Return(p, Reply(a, "ValidationError"))
                    /\ UNCHANGED <<files, nextId>>
               ELSE /\ files' = files \cup {nextId}
                    /\ nextId' = nextId + 1
                    /\ Await(p, "upload_insert", a, [NoLoc EXCEPT !.new_id = nextId])
    /\ UNCHANGED <<docs, claims, overlap, villages, issued>>

(* Document(...) and insert_one *)
upload_document_insert(p) ==
    /\ pc[p] = "upload_insert"
    /\ LET id == loc[p].new_id
       IN  /\ docs' = insert_one(id, Document(id, arg[p].mime, arg[p].document_type,
                                              arg[p].claim_id, 1, NoneId))
           /\ issued' = Record(id, id, 1)
           /\ Return(p, Reply([arg[p] EXCEPT !.id = id], "ok"))
    /\ UNCHANGED <<files, claims, nextId, nreq, last, overlap, villages>>

(* ------------------------ POST documents/{id}/ocr --------------------- *)
process_ocr(p) ==
    /\ Begin(p)
    /\ \E id \in DocIds :
         LET a == [NoArg EXCEPT !.op = "ocr", !.id = id]
             doc == find_one(id)
         IN  IF ~Found(doc)
               THEN Return(p, Reply(a, "NotFound"))
               ELSE Await(p, "ocr_processing", a, [NoLoc EXCEPT !.doc = doc])
    /\ UNCHANGED <<docs, files, claims, nextId, overlap, villages, issued>>

process_ocr_processing(p) ==
    /\ pc[p] = "ocr_processing"
    /\ docs' = update_one(arg[p].id, [status |-> "processing", updated_at |-> utcnow])
    /\ Await(p, "ocr_completed", arg[p], loc[p])
    /\ UNCHANGED <<files, claims, nextId, nreq, last, overlap, villages, issued>>

process_ocr_completed(p) ==
    /\ pc[p] = "ocr_completed"
    /\ \E r \in mock_ocr_processing(loc[p].doc.file_path, loc[p].doc.mime_type) :
         docs' = update_one(arg[p].id,
                            [status |-> "ocr_completed", ocr_text |-> r.text,
                             ocr_confidence |-> r.confidence, ocr_metadata |-> r.metadata,
                             updated_at |-> utcnow])
    /\ Return(p, Reply(arg[p], "ok"))
    /\ UNCHANGED <<files, claims, nextId, nreq, last, overlap, villages, issued>>

(* ------------------------- PUT documents/{id} ------------------------- *)
(* update_data.dict(exclude_unset=True): the fields the body provides *)
(* the "updated_at" entry left out of the $set *)
update_dict_no_timestamp(t, s) ==
    [k \in {f \in {"document_type", "status"} :
                 IF f = "document_type" THEN t # Unset ELSE s # Unset} |->
        IF k = "document_type" THEN t ELSE s]

update_dict(t, s) ==
    [k \in {f \in {"document_type", "status"} :
                 IF f = "document_type" THEN t # Unset ELSE s # Unset}
            \cup {"updated_at"} |->
        IF k = "document_type" THEN t ELSE IF k = "status" THEN s ELSE utcnow]

update_document(p) ==
    /\ Begin(p)
    /\ \E id \in DocIds, t \in UpdateTypeInputs, s \in UpdateStatusInputs :
         LET a == [NoArg EXCEPT !.op = "update", !.id = id, !.document_type = t,
                                !.status = s]
         IN  IF ~Found(find_one(id))
               THEN Return(p, Reply(a, "NotFound"))
               ELSE Await(p, "update_set", a, NoLoc)
    /\ UNCHANGED <<docs, files, claims, nextId, overlap, villages, issued>>

update_document_set(p) ==
    /\ pc[p] = "update_set"
    /\ docs' = update_one(arg[p].id, update_dict(arg[p].document_type, arg[p].status))
    /\ Await(p, "update_return", arg[p], loc[p])
    /\ UNCHANGED <<files, claims, nextId, nreq, last, overlap, villages, issued>>

(* the second find_one and Document(updated_doc) *)
update_document_return(p) ==
    /\ pc[p] = "update_return"
    /\ LET updated_doc == find_one(arg[p].id)
       IN  IF Found(updated_doc) /\ Valid(updated_doc)
             THEN Return(p, Reply(arg[p], "ok"))
             ELSE Return(p, Reply(arg[p], "ServerError"))
    /\ UNCHANGED <<docs, files, claims, nextId, nreq, last, overlap, villages, issued>>

(* ------------------------ DELETE documents/{id} ----------------------- *)
(* os.remove outside any try: a missing file ends the request *)
delete_document_raising(p) ==
    /\ Begin(p)
    /\ \E id \in DocIds :
         LET a == [NoArg EXCEPT !.op = "delete", !.id = id]
             doc == find_one(id)
         IN  IF ~Found(doc)
               THEN Return(p, Reply(a, "NotFound")) /\ UNCHANGED files
               ELSE IF doc.file_path \notin files
                 THEN Return(p, Reply(a, "ServerError")) /\ UNCHANGED files
                 ELSE /\ files' = files \ {doc.file_path}
                      /\ Await(p, "delete_record", [a EXCEPT !.status = "removed"],
                               [NoLoc EXCEPT !.doc = doc])
    /\ UNCHANGED <<docs, claims, nextId, overlap, villages, issued>>

(* find_one, then os.remove inside try/except OSError *)
delete_document(p) ==
    /\ Begin(p)
    /\ \E id \in DocIds :
         LET a == [NoArg EXCEPT !.op = "delete", !.id = id]
             doc == find_one(id)
         IN  IF ~Found(doc)
               THEN Return(p, Reply(a, "NotFound")) /\ UNCHANGED files
               ELSE /\ files' = files \ {doc.file_path}
                    /\ Await(p, "delete_record",
                             [a EXCEPT !.status =
                                 IF doc.file_path \in files THEN "removed" ELSE "OSError"],
                             [NoLoc EXCEPT !.doc = doc])
    /\ UNCHANGED <<docs, claims, nextId, overlap, villages, issued>>

delete_document_record(p) ==
    /\ pc[p] = "delete_record"
    /\ docs' = delete_one(arg[p].id)
    /\ Return(p, [Reply(arg[p], "ok") EXCEPT !.os_error = (arg[p].status = "OSError")])
    /\ UNCHANGED <<files, claims, nextId, nreq, last, overlap, villages, issued>>

(* --------------------- POST documents/{id}/version -------------------- *)
(* the documents the family query {"$or": [{"id": id}, {"parent_document_id": id}]} matches *)
FamilyQuery(id) == {i \in DOMAIN docs : i = id \/ docs[i].parent_document_id = id}

Max(S) == CHOOSE x \in S : \A y \in S : y <= x

(* the documents that are versions of the given one left out of the query *)
max_version_of_given_only(id) ==
    IF id \in DOMAIN docs THEN <<docs[id].version>> ELSE <<>>

(* .sort("version", -1).limit(1): the versions of the first document, if any *)
max_version(id) ==
    IF FamilyQuery(id) = {} THEN <<>>
    ELSE <<Max({docs[i].version : i \in FamilyQuery(id)})>>

(* the empty-query default taken as 0 *)
new_version_from_zero(mv) == (IF mv # <<>> THEN mv[1] ELSE 0) + 1

new_version(mv) == (IF mv # <<>> THEN mv[1] ELSE 1) + 1

create_document_version(p) ==
    /\ Begin(p)
    /\ nextId <= MaxDocs
    /\ \E id \in DocIds, m \in MimeInputs :
         LET a == [NoArg EXCEPT !.op = "version", !.id = id, !.mime = m]
             parent_doc == find_one(id)
         IN  IF ~Found(parent_doc)
               THEN Return(p, Reply(a, "NotFound")) /\ UNCHANGED nextId
               ELSE /\ nextId' = nextId + 1
                    /\ Await(p, "version_max", a,
                             [NoLoc EXCEPT !.doc = parent_doc, !.new_id = nextId])
    /\ UNCHANGED <<docs, files, claims, overlap, villages, issued>>

create_document_version_max(p) ==
    /\ pc[p] = "version_max"
    /\ Await(p, "version_write", arg[p],
             [loc[p] EXCEPT !.new_version = new_version(max_version(arg[p].id))])
    /\ UNCHANGED <<docs, files, claims, nextId, nreq, last, overlap, villages, issued>>

create_document_version_write(p) ==
    /\ pc[p] = "version_write"
    /\ files' = files \cup {loc[p].new_id}
    /\ Await(p, "version_insert", arg[p], loc[p])
    /\ UNCHANGED <<docs, claims, nextId, nreq, last, overlap, villages, issued>>

(* the version number taken from the store again at the time of insert_one *)
create_document_version_insert_fresh(p) ==
    /\ pc[p] = "version_insert"
    /\ LET id == loc[p].new_id
           new_doc == Document(id, arg[p].mime, loc[p].doc.document_type,
                               loc[p].doc.claim_id,
                               new_version(max_version(arg[p].id)), arg[p].id)
       IN  IF Valid(new_doc)
             THEN /\ docs' = insert_one(id, new_doc)
                  /\ issued' = Record(id, issued[arg[p].id].family, new_doc.version)
                  /\ Return(p, [Reply(arg[p], "ok") EXCEPT !.list = <<id>>])
             ELSE /\ Return(p, Reply(arg[p], "ServerError"))
                  /\ UNCHANGED <<docs, issued>>
    /\ UNCHANGED <<files, claims, nextId, nreq, last, overlap, villages>>

(* Document(...) from the parent read at the start, then insert_one *)
create_document_version_insert(p) ==
    /\ pc[p] = "version_insert"
    /\ LET id == loc[p].new_id
           new_doc == Document(id, arg[p].mime, loc[p].doc.document_type,
                               loc[p].doc.claim_id, loc[p].new_version, arg[p].id)
       IN  IF Valid(new_doc)
             THEN /\ docs' = insert_one(id, new_doc)
                  /\ issued' = Record(id, issued[arg[p].id].family, new_doc.version)
                  /\ Return(p, [Reply(arg[p], "ok") EXCEPT !.list = <<id>>])
             ELSE /\ Return(p, Reply(arg[p], "ServerError"))
                  /\ UNCHANGED <<docs, issued>>
    /\ UNCHANGED <<files, claims, nextId, nreq, last, overlap, villages>>

(* --------------------- GET documents/{id}/versions -------------------- *)
(* the orders .sort("version", 1) can return a set of documents in *)
SortedByVersion(S) ==
    {s \in [1..Cardinality(S) -> S] :
        /\ \A i, j \in 1..Cardinality(S) : i < j =>
              s[i] # s[j] /\ docs[s[i]].version <= docs[s[j]].version}

get_document_versions_result(id) == SortedByVersion(FamilyQuery(id))

get_document_versions(p) ==
    /\ Begin(p)
    /\ \E id \in DocIds :
         LET a == [NoArg EXCEPT !.op = "versions", !.id = id]
         IN  \E versions \in get_document_versions_result(id) :
               IF \A i \in FamilyQuery(id) : Valid(docs[i])
                 THEN Return(p, [Reply(a, "ok") EXCEPT !.list = versions])
                 ELSE Return(p, Reply(a, "ServerError"))
    /\ UNCHANGED <<docs, files, claims, nextId, overlap, villages, issued>>

(* ---------------------- POST documents/bulk-upload -------------------- *)
Lists(S) == UNION {[1..n -> S] : n \in 1..MaxBulk}

Allowed(m) == m \in allowed_types

NumAllowed(fs) == Cardinality({i \in DOMAIN fs : Allowed(fs[i])})

bulk_upload_response(a, l) ==
    [Reply(a, "ok") EXCEPT !.items = l.uploaded, !.total_ok = Len(l.uploaded),
                           !.total_failed = l.total_failed]

(* the loop goes to its next file, or the handler returns the counts *)
bulk_upload_continue(p, l) ==
    IF l.idx < Len(arg[p].items)
      THEN Await(p, "bulk_upload_file", arg[p], [l EXCEPT !.idx = @ + 1])
      ELSE Return(p, bulk_upload_response(arg[p], l))

bulk_upload_documents(p) ==
    /\ Begin(p)
    /\ \E fs \in Lists(MimeInputs), t \in TypeInputs, c \in ClaimIdInputs :
         /\ nextId + NumAllowed(fs) - 1 <= MaxDocs
         /\ Await(p, "bulk_upload_file",
                  [NoArg EXCEPT !.op = "bulk_upload", !.items = fs,
                                !.document_type = t, !.claim_id = c],
                  [NoLoc EXCEPT !.idx = 1])
    /\ UNCHANGED <<docs, files, claims, nextId, overlap, villages, issued>>

(* one file of the loop: validation, then generate_filename and the write *)
bulk_upload_file(p) ==
    /\ pc[p] = "bulk_upload_file"
    /\ IF ~Allowed(arg[p].items[loc[p].idx])
         THEN /\ bulk_upload_continue(p, [loc[p] EXCEPT !.total_failed = @ + 1])
              /\ UNCHANGED <<files, nextId>>
         ELSE /\ files' = files \cup {nextId}
              /\ nextId' = nextId + 1
              /\ Await(p, "bulk_upload_insert", arg[p], [loc[p] EXCEPT !.new_id = nextId])
    /\ UNCHANGED <<docs, claims, nreq, last, overlap, villages, issued>>

bulk_upload_insert(p) ==
    /\ pc[p] = "bulk_upload_insert"
    /\ LET id == loc[p].new_id
       IN  /\ docs' = insert_one(id, Document(id, arg[p].items[loc[p].idx],
                                              arg[p].document_type, arg[p].claim_id,
                                              1, NoneId))
           /\ issued' = Record(id, id, 1)
           /\ bulk_upload_continue(p, [loc[p] EXCEPT !.uploaded = Append(@, id)])
    /\ UNCHANGED <<files, claims, nextId, nreq, last, overlap, villages>>

(* ----------------------- POST documents/bulk-ocr ---------------------- *)
bulk_ocr_response(a, l) ==
    [Reply(a, "ok") EXCEPT !.items = a.items, !.total_ok = l.total_ok,
                           !.total_failed = l.total_failed]

bulk_ocr_continue(p, l) ==
    IF l.idx < Len(arg[p].items)
      THEN Await(p, "bulk_ocr_find", arg[p], [l EXCEPT !.idx = @ + 1])
      ELSE Return(p, bulk_ocr_response(arg[p], l))

bulk_ocr_processing(p) ==
    /\ Begin(p)
    /\ \E ids \in Lists(DocIds) :
         Await(p, "bulk_ocr_find", [NoArg EXCEPT !.op = "bulk_ocr", !.items = ids],
               [NoLoc EXCEPT !.idx = 1])
    /\ UNCHANGED <<docs, files, claims, nextId, overlap, villages, issued>>

(* an unknown id ends the batch instead of being skipped *)
bulk_ocr_find_abort(p) ==
    /\ pc[p] = "bulk_ocr_find"
    /\ LET doc == find_one(arg[p].items[loc[p].idx])
       IN  IF ~Found(doc)
             THEN Return(p, bulk_ocr_response(arg[p],
                                              [loc[p] EXCEPT !.total_failed = @ + 1]))
             ELSE Await(p, "bulk_ocr_set", arg[p], [loc[p] EXCEPT !.doc = doc])
    /\ UNCHANGED <<docs, files, claims, nextId, nreq, last, overlap, villages, issued>>

bulk_ocr_find(p) ==
    /\ pc[p] = "bulk_ocr_find"
    /\ LET doc == find_one(arg[p].items[loc[p].idx])
       IN  IF ~Found(doc)
             THEN bulk_ocr_continue(p, [loc[p] EXCEPT !.total_failed = @ + 1])
             ELSE Await(p, "bulk_ocr_set", arg[p], [loc[p] EXCEPT !.doc = doc])
    /\ UNCHANGED <<docs, files, claims, nextId, nreq, last, overlap, villages, issued>>

bulk_ocr_set(p) ==
    /\ pc[p] = "bulk_ocr_set"
    /\ docs' = update_one(arg[p].items[loc[p].idx], [status |-> "processing", updated_at |-> utcnow])
    /\ Await(p, "bulk_ocr_completed", arg[p], loc[p])
    /\ UNCHANGED <<files, claims, nextId, nreq, last, overlap, villages, issued>>

bulk_ocr_completed(p) ==
    /\ pc[p] = "bulk_ocr_completed"
    /\ \E r \in mock_ocr_processing(loc[p].doc.file_path, loc[p].doc.mime_type) :
         docs' = update_one(arg[p].items[loc[p].idx],
                            [status |-> "ocr_completed", ocr_text |-> r.text,
                             ocr_confidence |-> r.confidence, ocr_metadata |-> r.metadata,
                             updated_at |-> utcnow])
    /\ bulk_ocr_continue(p, [loc[p] EXCEPT !.total_ok = @ + 1, !.doc = NoDoc])
    /\ UNCHANGED <<files, claims, nextId, nreq, last, overlap, villages, issued>>

(* ------------------------------ POST claims --------------------------- *)
(* area_claimed in hundredths of a hectare, ai_confidence in hundredths *)
(* the threshold compared with <= *)
ai_recommendation_le(area_claimed) == IF area_claimed <= 400 THEN "approve" ELSE "review"

ai_recommendation(area_claimed) == IF area_claimed < 400 THEN "approve" ELSE "review"

ai_confidence(area_claimed) == IF area_claimed < 400 THEN 85 ELSE 65

ForestRightsClaim(year, n, area) ==
    [claim_number |-> <<"FRA", year, n>>, area_claimed |-> area, status |-> "pending",
     ai_recommendation |-> ai_recommendation(area),
     ai_confidence |-> ai_confidence(area), ocr_confidence |-> 92]

(* count_documents({}) *)
create_claim(p) ==
    /\ Idle(p)
    /\ overlap \/ (Quiet /\ p = Worker)
    /\ Len(claims) + Cardinality({q \in Procs : pc[q] = "claim_insert"}) < MaxClaims
    /\ \E area \in AreaInputs :
         Await(p, "claim_insert", [NoArg EXCEPT !.op = "claim", !.area = area],
               [NoLoc EXCEPT !.count = Len(claims)])
    /\ UNCHANGED <<docs, files, claims, nextId, nreq, last, overlap, villages, issued>>

create_claim_insert(p) ==
    /\ pc[p] = "claim_insert"
    /\ \E year \in YearInputs :
         claims' = Append(claims, ForestRightsClaim(year, loc[p].count + 1, arg[p].area))
    /\ Return(p, [Reply(arg[p], "ok") EXCEPT !.id = Len(claims) + 1])
    /\ UNCHANGED <<docs, files, nextId, nreq, last, overlap, villages, issued>>

(* ---------------------- POST mock-data/generate ----------------------- *)
Village(name, state, district) == [name |-> name, state |-> state, district |-> district]

mock_villages ==
    << Village("Rampur", "Madhya Pradesh", "Balaghat"),
       Village("Sundarpur", "Madhya Pradesh", "Balaghat"),
       Village("Vanagram", "Chhattisgarh", "Korba"),
       Village("Forestpur", "Chhattisgarh", "Korba"),
       Village("Tribalnagar", "Jharkhand", "Ranchi") >>

(* the loop "find_one by name and district, insert_one if there is none":  *)
(* the mock villages differ pairwise, so each is judged against the store  *)
(* as it was before the loop                                               *)
missing_villages(store, vs) ==
    LET missing(v) == ~\E i \in DOMAIN store :
                         store[i].name = v.name /\ store[i].district = v.district
    IN  SelectSeq(vs, missing)

(* the claim built for the village at position i (from 0) of villages[:3] *)
mock_claim(i) ==
    [claim_number |-> <<"FRA", 2024, i + 1>>,
     area_claimed |-> 250 + i * 80,
     status |-> IF i = 0 THEN "pending" ELSE IF i = 1 THEN "approved" ELSE "under_review",
     ai_recommendation |-> IF i % 2 = 0 THEN "approve" ELSE "review",
     ai_confidence |-> 80 + i * 5,
     ocr_confidence |-> 85 + i * 5]

mock_claims(vs) == [j \in 1..(IF Len(vs) < 3 THEN Len(vs) ELSE 3) |-> mock_claim(j - 1)]

(* every mock claim inserted without looking for its claim number *)
missing_claims_unchecked(store, cs) == cs

(* the loop "find_one by claim_number, insert_one if there is none" *)
missing_claims(store, cs) ==
    LET missing(c) == ~\E i \in DOMAIN store : store[i].claim_number = c.claim_number
    IN  SelectSeq(cs, missing)

(* the uuid of the claim stored at position i *)
claim_id(i) == IF i = 1 THEN "claim-1" ELSE "claim-2"

(* file names and paths of the mock documents contain no uuid; they are    *)
(* numbered below zero here: mock_identity_i is -(2i+1), mock_land_i is    *)
(* -(2i+2)                                                                 *)
mock_filename(i, k) == 0 - (2 * i + k)

(* the two documents made for the claim at position i (from 0) of the      *)
(* first two claims                                                        *)
mock_docs(i, identity_confidence, land_confidence) ==
    << [Document(mock_filename(i, 1), "application/pdf", "identity_proof",
                 claim_id(i + 1), 1, NoneId)
          EXCEPT !.status = "ocr_completed",
                 !.ocr_text = "Mock OCR text for identity document",
                 !.ocr_confidence = identity_confidence],
       [Document(mock_filename(i, 2), "application/pdf", "land_document",
                 claim_id(i + 1), 1, NoneId)
          EXCEPT !.status = "verified",
                 !.ocr_text = "Mock OCR text for land document",
                 !.ocr_confidence = land_confidence] >>

(* db.documents.find_one({"filename": name}) finds a document *)
stored(name) == \E i \in DOMAIN docs : docs[i].filename = name

(* the loop "find_one by filename, insert_one if there is none" *)
missing_docs(ds) ==
    LET missing(d) == ~stored(d.filename)
    IN  SelectSeq(ds, missing)

(* the values a random.uniform(lo, hi) is looked at with: a draw made for  *)
(* a document that will not be inserted is dropped with it, and one value *)
(* stands for all of them                                                 *)
uniform(lo, hi, used) == IF used THEN {lo, hi} ELSE {lo}

(* the whole handler; it is served only while no other request is, so the  *)
(* states between its awaits are seen by nobody                            *)
generate_mock_data(p) ==
    /\ ~overlap /\ Quiet /\ p = Worker
    /\ LET vs == villages \o missing_villages(villages, mock_villages)
           cs == IF vs # <<>> THEN claims \o missing_claims(claims, mock_claims(vs))
                 ELSE claims
           first == IF Len(cs) < 2 THEN Len(cs) ELSE 2
           new(i, k) == i < first /\ ~stored(mock_filename(i, k))
       IN  /\ Len(cs) <= MaxClaims
           /\ villages' = vs
           /\ claims' = cs
           /\ \E i0 \in uniform(85, 95, new(0, 1)), l0 \in uniform(88, 96, new(0, 2)),
                 i1 \in uniform(85, 95, new(1, 1)), l1 \in uniform(88, 96, new(1, 2)) :
                LET ds == IF first = 0 THEN <<>>
                          ELSE IF first = 1 THEN mock_docs(0, i0, l0)
                          ELSE mock_docs(0, i0, l0) \o mock_docs(1, i1, l1)
                    todo == missing_docs(ds)
                    ids == nextId..(nextId + Len(todo) - 1)
                IN  /\ nextId + Len(todo) - 1 <= MaxDocs
                    /\ docs' = [id \in DOMAIN docs \cup ids |->
                                  IF id \in DOMAIN docs THEN docs[id]
                                  ELSE todo[id - nextId + 1]]
                    /\ issued' = [id \in DOMAIN issued \cup ids |->
                                    IF id \in DOMAIN issued THEN issued[id]
                                    ELSE [family |-> id, version |-> 1]]
                    /\ nextId' = nextId + Len(todo)
    /\ Return(p, Reply([NoArg EXCEPT !.op = "mock"], "ok"))
    /\ UNCHANGED <<files, nreq, last, overlap>>

(* ------------------ GET documents, villages, claims ------------------- *)
(* the le= bounds of the three limit parameters *)
documents_le == 100

villages_le == 1000

claims_le == 1000

LimitInputs == {0 - 1, 0, 1, 50, documents_le, documents_le + 1, claims_le, claims_le + 1}

StatusFilterInputs == {"None", "uploaded"}

ClaimStatusFilterInputs == {"None", "pending"}

StateFilterInputs == {"None", "Jharkhand"}

(* Query(default, le=bound): a larger value never reaches the handler *)
Query(limit, le) == limit <= le

(* cursor.limit(n): 0 means no limit, a negative n limits to -n records *)
cursor_limit(s, n) ==
    LET m == IF n < 0 THEN 0 - n ELSE n
    IN  IF n = 0 THEN s ELSE SubSeq(s, 1, IF m < Len(s) THEN m ELSE Len(s))

(* db.documents.find({"status": status}) in the order of insertion; ids are *)
(* handed out in increasing order                                          *)
find_documents(status) ==
    LET match(i) == /\ i \in DOMAIN docs
                    /\ status # "None" => docs[i].status = status
    IN  SelectSeq([i \in 1..(nextId - 1) |-> i], match)

get_documents(p) ==
    /\ Begin(p)
    /\ \E limit \in LimitInputs, status \in StatusFilterInputs :
         LET a == [NoArg EXCEPT !.op = "documents", !.status = status]
             documents == cursor_limit(find_documents(status), limit)
         IN  IF ~Query(limit, documents_le)
               THEN Return(p, [Reply(a, "Unprocessable") EXCEPT !.limit = limit])
               ELSE IF \E k \in DOMAIN documents : ~Valid(docs[documents[k]])
                 THEN Return(p, [Reply(a, "ServerError") EXCEPT !.limit = limit])
                 ELSE Return(p, [Reply(a, "ok") EXCEPT !.limit = limit,
                                                       !.list = documents])
    /\ UNCHANGED <<docs, files, claims, villages, nextId, overlap, issued>>

(* db.villages.find({"state": state}): positions in the collection *)
find_villages(state) ==
    LET match(i) == state # "None" => villages[i].state = state
    IN  SelectSeq([i \in DOMAIN villages |-> i], match)

get_villages(p) ==
    /\ Begin(p)
    /\ \E limit \in LimitInputs, state \in StateFilterInputs :
         LET a == [NoArg EXCEPT !.op = "villages", !.status = state]
         IN  IF ~Query(limit, villages_le)
               THEN Return(p, [Reply(a, "Unprocessable") EXCEPT !.limit = limit])
               ELSE Return(p, [Reply(a, "ok") EXCEPT
                                 !.limit = limit,
                                 !.list = cursor_limit(find_villages(state), limit)])
    /\ UNCHANGED <<docs, files, claims, villages, nextId, overlap, issued>>

(* db.claims.find({"status": status}): positions in the collection *)
find_claims(status) ==
    LET match(i) == status # "None" => claims[i].status = status
    IN  SelectSeq([i \in DOMAIN claims |-> i], match)

get_claims(p) ==
    /\ Begin(p)
    /\ \E limit \in LimitInputs, status \in ClaimStatusFilterInputs :
         LET a == [NoArg EXCEPT !.op = "claims", !.status = status]
         IN  IF ~Query(limit, claims_le)
               THEN Return(p, [Reply(a, "Unprocessable") EXCEPT !.limit = limit])
               ELSE Return(p, [Reply(a, "ok") EXCEPT
                                 !.limit = limit,
                                 !.list = cursor_limit(find_claims(status), limit)])
    /\ UNCHANGED <<docs, files, claims, villages, nextId, overlap, issued>>

(* stores filled by earlier uploads, village and claim creations: empty,   *)
(* holding exactly the bound of their list route, or one record more       *)
ListInit ==
    /\ overlap = FALSE
    /\ nreq = 0
    /\ \E k \in {0, 1, 2} :
         LET size(le) == IF k = 0 THEN 0 ELSE le + k - 1
         IN  /\ docs = [i \in 1..size(documents_le) |->
                          Document(i, "application/pdf", "land_document", "None", 1, NoneId)]
             /\ files = 1..size(documents_le)
             /\ nextId = size(documents_le) + 1
             /\ issued = [i \in 1..size(documents_le) |-> [family |-> i, version |-> 1]]
             /\ claims = [i \in 1..size(claims_le) |-> ForestRightsClaim(2024, i, 250)]
             /\ villages = [i \in 1..size(villages_le) |->
                              IF i % 2 = 0 THEN Village("Rampur", "Madhya Pradesh", "Balaghat")
                              ELSE Village("Tribalnagar", "Jharkhand", "Ranchi")]
    /\ last = NoneId
    /\ pc = [p \in Procs |-> "idle"]
    /\ arg = [p \in Procs |-> NoArg]
    /\ loc = [p \in Procs |-> NoLoc]
    /\ resp = [p \in Procs |-> NoResp]

(* ------------------------------- claims ------------------------------- *)
(* p is the process a request arrives at in this step *)
Arrives(p) ==
    /\ Idle(p)
    /\ nreq' = nreq + 1
    /\ last' = p

(* the request of a process after the step it arrived in: its parameters while *)
(* the handler runs, the request its response answers once it has returned     *)
Request(p) == IF Idle(p) THEN resp[p] ELSE arg[p]

Roots == {r \in DOMAIN docs : docs[r].version = 1 /\ docs[r].parent_document_id = NoneId}

Members(r) == {m \in DOMAIN docs : docs[m].parent_document_id = r}

(* C1: for a family with a root and later versions, ListVersions answers the *)
(* same list for the root's id and for every non-root member's id.           *)
C1_SameListForEveryMember ==
    \A r \in Roots : \A m \in Members(r) :
        get_document_versions_result(m) = get_document_versions_result(r)

(* C2: with requests that do not overlap, the versions CreateVersion assigns *)
(* within one family are strictly increasing in call order, so no two        *)
(* documents of a family hold the same version.                              *)
C2_VersionsStrictlyIncreasing ==
    \A i, j \in DOMAIN issued :
        (i < j /\ issued[i].family = issued[j].family) =>
            issued[i].version < issued[j].version

(* C3: a document created by CreateVersion has the id of the version-1 root *)
(* of its family as its parent reference, whichever member was passed.      *)
C3_ParentIsRoot ==
    \A d \in DOMAIN docs :
        docs[d].parent_document_id # NoneId =>
            docs[d].parent_document_id = issued[d].family

(* C4: in every reachable state a document has version 1 exactly when it has *)
(* no parent reference; a document with a parent has version >= 2.           *)
C4_VersionOneIffNoParent ==
    \A d \in DOMAIN docs :
        /\ docs[d].version = 1 <=> docs[d].parent_document_id = NoneId
        /\ docs[d].parent_document_id # NoneId => docs[d].version >= 2

(* a version whose parent is gone from the store while a root still exists *)
C4_Witness ==
    \E d \in DOMAIN docs :
        /\ docs[d].parent_document_id # NoneId
        /\ docs[d].parent_document_id \notin DOMAIN docs
        /\ docs[d].version = 2
        /\ \E q \in Procs : resp[q].op = "delete" /\ resp[q].status = "ok"
                            /\ resp[q].id = docs[d].parent_document_id

StatusEdges ==
    {<<"uploaded", "processing">>, <<"processing", "ocr_completed">>,
     <<"ocr_completed", "verified">>, <<"ocr_completed", "rejected">>}

(* C5: a document's status changes only along uploaded -> processing ->      *)
(* ocr_completed -> verified | rejected; nothing moves a verified or         *)
(* rejected document to another status.                                      *)
C5_StatusFollowsEdges ==
    [][\A d \in DOMAIN docs \cap DOMAIN docs' :
          docs'[d].status # docs[d].status =>
              <<docs[d].status, docs'[d].status>> \in StatusEdges]_vars

(* C6: RequestOCR, CreateVersion, Update and Delete on an id that is not in *)
(* the store answer NotFound at once and change no record and no file.      *)
C6_UnknownIdNotFound ==
    [][\A p \in Procs :
          (/\ Arrives(p)
           /\ Request(p)'.op \in {"ocr", "version", "update", "delete"}
           /\ Request(p)'.id \notin DOMAIN docs)
          => /\ pc'[p] = "idle"
             /\ resp'[p].status = "NotFound"
             /\ docs' = docs /\ files' = files /\ nextId' = nextId]_vars

C6_Witness ==
    /\ DOMAIN docs # {}
    /\ \E p \in Procs : resp[p].op = "delete" /\ resp[p].status = "NotFound"
    /\ \E p \in Procs : resp[p].op = "version" /\ resp[p].status = "NotFound"

SixAllowedTypes ==
    {"application/pdf", "image/jpeg", "image/jpg", "image/png", "image/tiff",
     "image/bmp"}

(* C7: an Upload whose MIME type is not one of the six allowed types answers *)
(* a validation error; no record is created and no file is written.          *)
C7_DisallowedMimeRejected ==
    [][\A p \in Procs :
          (/\ Arrives(p)
           /\ Request(p)'.op = "upload"
           /\ Request(p)'.mime \notin SixAllowedTypes)
          => /\ pc'[p] = "idle"
             /\ resp'[p].status = "ValidationError"
             /\ docs' = docs /\ files' = files]_vars

C7_Witness ==
    \E p \in Procs : /\ resp[p].op = "upload" /\ resp[p].status = "ValidationError"
                     /\ resp[p].mime = "text/plain"

(* C8: Delete on an id that is in the store goes on to remove the record    *)
(* whether or not the backing file is there, and answers success.           *)
C8_DeleteRemovesRecord ==
    [][\A p \in Procs :
          /\ (Arrives(p) /\ Request(p)'.op = "delete"
                /\ Request(p)'.id \in DOMAIN docs) => pc'[p] = "delete_record"
          /\ (pc[p] = "delete_record" /\ pc'[p] # "delete_record")
                => /\ arg[p].id \notin DOMAIN docs'
                   /\ resp'[p].status = "ok"]_vars

(* a Delete that found the file already gone has removed the record *)
C8_Witness ==
    \E p \in Procs : /\ resp[p].op = "delete" /\ resp[p].status = "ok"
                     /\ resp[p].os_error
                     /\ resp[p].id \notin DOMAIN docs


(* C9: a bulk operation over N items of which K are invalid reports K      *)
(* failures and N-K successes, and every valid item is applied wherever it  *)
(* stands in the batch: its record is in the store (BulkCreate), its status *)
(* is ocr_completed (BulkOCR).                                              *)
C9_BulkPartialFailure ==
    [][\A p \in Procs :
          /\ (pc[p] \in {"bulk_upload_file", "bulk_upload_insert"} /\ pc'[p] = "idle")
               => LET fs == arg[p].items
                      valid == {i \in DOMAIN fs : fs[i] \in SixAllowedTypes}
                      up == resp'[p].items
                  IN  /\ resp'[p].total_failed = Len(fs) - Cardinality(valid)
                      /\ resp'[p].total_ok = Cardinality(valid)
                      /\ Len(up) = Cardinality(valid)
                      /\ \A i, j \in DOMAIN up : i # j => up[i] # up[j]
                      /\ \A i \in DOMAIN up :
                            /\ up[i] \in DOMAIN docs'
                            /\ docs'[up[i]].version = 1
                            /\ docs'[up[i]].mime_type \in SixAllowedTypes
          /\ (pc[p] \in {"bulk_ocr_find", "bulk_ocr_completed"} /\ pc'[p] = "idle")
               => LET ids == arg[p].items
                      valid == {i \in DOMAIN ids : ids[i] \in DOMAIN docs'}
                  IN  /\ DOMAIN docs' = DOMAIN docs
                      /\ resp'[p].total_failed = Len(ids) - Cardinality(valid)
                      /\ resp'[p].total_ok = Cardinality(valid)
                      /\ \A i \in valid : docs'[ids[i]].status = "ocr_completed"]_vars

(* a batch whose first id is unknown and whose second id is processed *)
C9_Witness ==
    \E p \in Procs :
        /\ resp[p].op = "bulk_ocr"
        /\ Len(resp[p].items) = 2
        /\ resp[p].items[1] \notin DOMAIN docs
        /\ resp[p].items[2] \in DOMAIN docs
        /\ docs[resp[p].items[2]].status = "ocr_completed"
        /\ resp[p].total_ok = 1 /\ resp[p].total_failed = 1

(* C10: create-claim derives the AI fields from the claimed area alone:      *)
(* below 4.0 it recommends "approve" with confidence 0.85, from 4.0 on       *)
(* "review" with confidence 0.65; the new claim is pending.                  *)
C10_AiFieldsFromArea ==
    [][\A p \in Procs :
          (pc[p] = "claim_insert" /\ pc'[p] = "idle")
          => /\ Len(claims') = Len(claims) + 1
             /\ LET c == claims'[Len(claims')]
                IN  /\ c.area_claimed = arg[p].area
                    /\ c.status = "pending"
                    /\ c.area_claimed < 400 =>
                          c.ai_recommendation = "approve" /\ c.ai_confidence = 85
                    /\ c.area_claimed >= 400 =>
                          c.ai_recommendation = "review" /\ c.ai_confidence = 65]_vars

(* claims of exactly 4.0 and of just under 4.0 are in the store *)
C10_Witness ==
    /\ \E i \in DOMAIN claims :
         claims[i].area_claimed = 400 /\ claims[i].ai_recommendation = "review"
    /\ \E i \in DOMAIN claims :
         claims[i].area_claimed = 399 /\ claims[i].ai_recommendation = "approve"

(* C11: when requests do not overlap, a claim created by create-claim gets  *)
(* the number (count of the stored claims + 1), and no two stored claims    *)
(* carry the same claim number, wherever in the sequence mock-data          *)
(* generation is called.                                                    *)
C11_ClaimNumbersUnique ==
    [][/\ \A p \in Procs :
            (pc[p] = "claim_insert" /\ pc'[p] = "idle")
            => /\ Len(claims') = Len(claims) + 1
               /\ \A i \in DOMAIN claims : claims'[i] = claims[i]
               /\ claims'[Len(claims')].claim_number[1] = "FRA"
               /\ claims'[Len(claims')].claim_number[3] = Len(claims) + 1
       /\ \A i, j \in DOMAIN claims' :
            i # j => claims'[i].claim_number # claims'[j].claim_number]_vars

(* a claim created first with number 1 of 2024, mock data generated after   *)
(* it (its claims 2 and 3 added), and a claim created last with number 4    *)
C11_Witness ==
    /\ Len(claims) = 4
    /\ claims[1].claim_number = <<"FRA", 2024, 1>> /\ claims[1].ocr_confidence = 92
    /\ claims[2] = mock_claim(1)
    /\ claims[3] = mock_claim(2)
    /\ claims[4].claim_number[3] = 4 /\ claims[4].ocr_confidence = 92
    /\ Len(villages) = 5

(* C12: the version number a CreateVersion stores is the one it computed    *)
(* from the maximum it read, whatever other requests have inserted since;   *)
(* two overlapping CreateVersion requests on one parent that read the same  *)
(* maximum therefore leave two documents of one family with the same        *)
(* version and the same parent.                                             *)
C12_InsertKeepsVersionRead ==
    [][\A p \in Procs :
          (pc[p] = "version_insert" /\ pc'[p] = "idle" /\ resp'[p].status = "ok")
          => /\ loc[p].new_id \in DOMAIN docs'
             /\ docs'[loc[p].new_id].version = loc[p].new_version
             /\ docs'[loc[p].new_id].parent_document_id = arg[p].id]_vars

(* two stored documents of one family with equal version and equal parent *)
C12_Witness ==
    \E a, b \in DOMAIN docs :
        /\ a # b
        /\ docs[a].parent_document_id # NoneId
        /\ docs[a].parent_document_id = docs[b].parent_document_id
        /\ docs[a].version = docs[b].version
        /\ issued[a].family = issued[b].family

(* C13: a CreateVersion that found its parent succeeds whatever state the   *)
(* parent is in, and its only effect on the store is the one document it    *)
(* adds: every document that was there stays as it was.                     *)
C13_CreateVersionAddsOneDocument ==
    [][\A p \in Procs :
          (pc[p] = "version_insert" /\ pc'[p] = "idle")
          => /\ resp'[p].status = "ok"
             /\ DOMAIN docs' = DOMAIN docs \cup {loc[p].new_id}
             /\ loc[p].new_id \notin DOMAIN docs
             /\ \A d \in DOMAIN docs : docs'[d] = docs[d]]_vars

(* C14: the document a CreateVersion inserts has version 1 + the maximum    *)
(* version among the document with the given id and the documents whose     *)
(* parent is the given id; its parent is the given id, its status uploaded, *)
(* its type and claim link are the parent's, and it has no OCR text.        *)
C14_InsertedVersionDocument ==
    [][\A p \in Procs :
          (pc[p] = "version_insert" /\ pc'[p] = "idle" /\ resp'[p].status = "ok")
          => LET id == arg[p].id
                 new == docs'[loc[p].new_id]
                 versions == {docs[d].version :
                                d \in {e \in DOMAIN docs :
                                         e = id \/ docs[e].parent_document_id = id}}
             IN  /\ id \in DOMAIN docs
                 /\ \E m \in versions :
                      /\ \A v \in versions : v <= m
                      /\ new.version = 1 + m
                 /\ new.parent_document_id = id
                 /\ new.status = "uploaded"
                 /\ new.document_type = docs[id].document_type
                 /\ new.claim_id = docs[id].claim_id
                 /\ new.ocr_text = "None"]_vars

(* a third version was created from a parent that already had a second *)
C14_Witness ==
    \E p \in Procs :
        /\ resp[p].op = "version" /\ resp[p].status = "ok"
        /\ resp[p].id \in DOMAIN docs
        /\ docs[resp[p].id].version = 1
        /\ resp[p].list[1] \in DOMAIN docs
        /\ docs[resp[p].list[1]].version = 3
        /\ docs[resp[p].list[1]].parent_document_id = resp[p].id
        /\ docs[resp[p].list[1]].claim_id = "claim-1"

(* C15: Update changes exactly the fields the body provides among document  *)
(* type and status, and the updated timestamp; every other field of the     *)
(* document, every other document, the files and the claims stay as they    *)
(* were.                                                                    *)
C15_UpdateChangesProvidedFields ==
    [][\A p \in Procs :
          (pc[p] = "update_set" /\ pc'[p] = "update_return")
          => /\ files' = files /\ claims' = claims
             /\ DOMAIN docs' = DOMAIN docs
             /\ \A d \in DOMAIN docs :
                  IF d # arg[p].id
                    THEN docs'[d] = docs[d]
                    ELSE \A f \in DOMAIN docs[d] :
                           docs'[d][f] =
                             IF f = "updated_at" THEN utcnow
                             ELSE IF f = "document_type" /\ arg[p].document_type # Unset
                               THEN arg[p].document_type
                             ELSE IF f = "status" /\ arg[p].status # Unset
                               THEN arg[p].status
                             ELSE docs[d][f]]_vars

(* a body with the status alone was applied to a document uploaded earlier: *)
(* status and timestamp are new, the type is the uploaded one               *)
C15_Witness ==
    \E p \in Procs :
        /\ pc[p] = "update_return"
        /\ arg[p].status = "verified" /\ arg[p].document_type = Unset
        /\ arg[p].id \in DOMAIN docs
        /\ docs[arg[p].id].status = "verified"
        /\ docs[arg[p].id].document_type = "land_document"
        /\ docs[arg[p].id].updated_at = utcnow
        /\ utcnow > 1

(* C16: Delete removes the file of the document it found and then that      *)
(* document's record, and nothing else: every other record and file stays,  *)
(* so the versions of a deleted document keep a parent reference to an id   *)
(* that is no longer stored.                                                *)
C16_DeleteRemovesOnlyThatDocument ==
    [][\A p \in Procs :
          /\ (pc[p] = "idle" /\ pc'[p] = "delete_record")
             => /\ docs' = docs
                /\ arg'[p].id \in DOMAIN docs
                /\ files' = files \ {docs[arg'[p].id].file_path}
          /\ (pc[p] = "delete_record" /\ pc'[p] = "idle")
             => /\ files' = files
                /\ DOMAIN docs' = DOMAIN docs \ {arg[p].id}
                /\ \A d \in DOMAIN docs' : docs'[d] = docs[d]]_vars

(* a version whose parent was deleted: its record still names the parent    *)
(* and its own file is still on disk                                        *)
C16_Witness ==
    \E d \in DOMAIN docs :
        /\ docs[d].parent_document_id # NoneId
        /\ docs[d].parent_document_id \notin DOMAIN docs
        /\ docs[d].parent_document_id \notin files
        /\ docs[d].file_path \in files
        /\ \E q \in Procs : resp[q].op = "delete" /\ resp[q].status = "ok"
                            /\ resp[q].id = docs[d].parent_document_id
                            /\ ~resp[q].os_error

(* C17: a RequestOCR accepted for an existing document first sets the       *)
(* status to processing; its completion step leaves the document, if it is  *)
(* still stored, with status ocr_completed, a non-empty OCR text, stored    *)
(* OCR metadata and a confidence within [0.75, 0.98], whatever that         *)
(* confidence is; and when handlers are scheduled fairly every accepted     *)
(* request reaches its completion step and answers.                         *)
C17_OcrCompletes ==
    /\ [][\A p \in Procs :
            /\ (pc[p] = "ocr_processing" /\ pc'[p] # pc[p])
               => /\ pc'[p] = "ocr_completed"
                  /\ arg[p].id \in DOMAIN docs =>
                        docs'[arg[p].id].status = "processing"
            /\ (pc[p] = "ocr_completed" /\ pc'[p] # pc[p])
               => /\ pc'[p] = "idle"
                  /\ resp'[p].op = "ocr" /\ resp'[p].status = "ok"
                  /\ arg[p].id \in DOMAIN docs' =>
                        LET d == docs'[arg[p].id]
                        IN  /\ d.status = "ocr_completed"
                            /\ d.ocr_text \notin {"None", ""}
                            /\ d.ocr_metadata # "{}"
                            /\ d.ocr_confidence >= 75 /\ d.ocr_confidence <= 98]_vars
    /\ \A p \in Procs :
         (pc[p] = "ocr_processing") ~>
            (pc[p] = "idle" /\ resp[p].op = "ocr" /\ resp[p].status = "ok")

(* an OCR request answered after completing with the lowest confidence *)
C17_Witness ==
    \E p \in Procs :
        /\ resp[p].op = "ocr" /\ resp[p].status = "ok"
        /\ resp[p].id \in DOMAIN docs
        /\ docs[resp[p].id].status = "ocr_completed"
        /\ docs[resp[p].id].ocr_confidence = 75
        /\ docs[resp[p].id].ocr_text = "FOREST RIGHTS CERTIFICATE"

(* C18: a list request for documents, villages or claims whose limit lies   *)
(* above the bound of its collection (100 for documents, 1000 for villages  *)
(* and claims) is served, and whatever the limit the response holds at most *)
(* that bound of records.                                                   *)
C18_LimitClamped ==
    [][\A p \in Procs :
          (Arrives(p) /\ resp'[p].op \in {"documents", "villages", "claims"})
          => LET bound == IF resp'[p].op = "documents" THEN 100 ELSE 1000
             IN  /\ resp'[p].status = "ok"
                 /\ Len(resp'[p].list) <= bound]_vars

(* C19: every stored document carries one of the six allowed MIME types,    *)
(* whichever of Upload, BulkCreate and CreateVersion produced it.           *)
C19_StoredMimeAllowed ==
    \A d \in DOMAIN docs : docs[d].mime_type \in SixAllowedTypes

(* C20: every stored document's status is one of the five status values and *)
(* its type one of the seven document types, whatever Update requests were  *)
(* served.                                                                  *)
C20_StoredEnumsValid ==
    \A d \in DOMAIN docs :
        /\ docs[d].status \in
             {"uploaded", "processing", "ocr_completed", "verified", "rejected"}
        /\ docs[d].document_type \in
             {"identity_proof", "address_proof", "land_document",
              "survey_settlement", "forest_clearance", "photograph", "other"}

(* C21: a deleted document is never brought back: an id that was given to   *)
(* a document and is no longer stored is not stored after any step either,  *)
(* so the status and OCR writes of a RequestOCR, a BulkOCR item or an       *)
(* Update that passed its existence check before the Delete create no       *)
(* record.                                                                  *)
C21_DeletedStaysDeleted ==
    [][\A d \in DOMAIN issued : d \notin DOMAIN docs => d \notin DOMAIN docs']_vars

(* a Delete has answered and its document is gone while an OCR request on   *)
(* the same id, past its existence check, has both of its writes ahead      *)
C21_Witness ==
    \E p, q \in Procs :
        /\ resp[p].op = "delete" /\ resp[p].status = "ok"
        /\ resp[p].id \in DOMAIN issued
        /\ resp[p].id \notin DOMAIN docs
        /\ pc[q] = "ocr_processing"
        /\ arg[q].id = resp[p].id

(* ---------------------------- specifications -------------------------- *)
Next ==
    \E p \in Procs :
        \/ upload_document(p)
        \/ upload_document_insert(p)
        \/ process_ocr(p)
        \/ process_ocr_processing(p)
        \/ process_ocr_completed(p)
        \/ update_document(p)
        \/ update_document_set(p)
        \/ update_document_return(p)
        \/ delete_document(p)
        \/ delete_document_record(p)
        \/ create_document_version(p)
        \/ create_document_version_max(p)
        \/ create_document_version_write(p)
        \/ create_document_version_insert(p)
        \/ get_document_versions(p)
        \/ bulk_upload_documents(p)
        \/ bulk_upload_file(p)
        \/ bulk_upload_insert(p)
        \/ bulk_ocr_processing(p)
        \/ bulk_ocr_find(p)
        \/ bulk_ocr_set(p)
        \/ bulk_ocr_completed(p)

ClaimNext == \E p \in Procs : create_claim(p) \/ create_claim_insert(p)

ListNext == \E p \in Procs : get_documents(p) \/ get_villages(p) \/ get_claims(p)

MockNext ==
    \E p \in Procs :
        \/ create_claim(p)
        \/ create_claim_insert(p)
        \/ generate_mock_data(p)

(* the requests around one OCR run: upload, OCR, update and delete *)
OcrNext ==
    \E p \in Procs :
        \/ upload_document(p)
        \/ upload_document_insert(p)
        \/ process_ocr(p)
        \/ process_ocr_processing(p)
        \/ process_ocr_completed(p)
        \/ update_document(p)
        \/ update_document_set(p)
        \/ update_document_return(p)
        \/ delete_document(p)
        \/ delete_document_record(p)

(* the document service, requests overlapping freely *)
Spec == Init /\ [][Next]_vars

(* the document service, one request at a time *)
SeqSpec == SeqInit /\ [][Next]_vars

(* the claims service *)
ClaimSpec == Init /\ [][ClaimNext]_vars

(* overlapping requests around OCR; the event loop resumes every handler   *)
(* whose await has completed                                               *)
FairSpec ==
    /\ Init
    /\ [][OcrNext]_vars
    /\ \A p \in Procs : /\ WF_vars(process_ocr_processing(p))
                        /\ WF_vars(process_ocr_completed(p))

(* the claims service with mock-data generation, one request at a time *)
MockSpec == SeqInit /\ [][MockNext]_vars

(* the list routes over filled stores, one request at a time *)
ListSpec == ListInit /\ [][ListNext]_vars

====
